---------------------------- MODULE Spec2Model ----------------------------
(***************************************************************************)
(* MemCache (src/cache.go): an in-memory key-value cache with time-based   *)
(* expiration, guarded by one sync.RWMutex, with an optional background    *)
(* goroutine that calls Evict on the ticks of a time.Ticker.               *)
(*                                                                         *)
(* The clock counts whole seconds; a time.Duration counts units of         *)
(* 1/Second of a second, so that a duration need not be a whole number of  *)
(* seconds.  Every call is split at the points where the goroutine can be suspended: the   *)
(* invocation, the acquisition of the mutex, and the body that ends with   *)
(* the deferred unlock and the return.  Evict's range loop is one step     *)
(* per visited entry, because it reads time.Now() for each entry.          *)
(***************************************************************************)
EXTENDS Integers, FiniteSets, Sequences, TLC

\* ------------------------------------------------------------- bounds
MaxTime == 2
MaxCalls == 3

\* time.Second, in duration units
Second == 2

Keys == {"a", "b"}
Values == {"x", "y"}
Callers == {"c1", "c2"}
Sweeper == "sweep"
Procs == Callers \cup {Sweeper}
NoProc == "none"

\* ttl arguments of AddWithExpireTime, in seconds
TTLs == {0, 1}
\* arguments of New, in duration units
CheckIntervals == {2}
RecordEvictTimes == {3}
\* arguments of StartEvictionChecks
Contexts == {"nil", "ctx"}

VARIABLES
    timeRecordEvict,        \* New's second argument (kept to state what New does with it)
    timeToLiveInSeconds,    \* MemCache.timeToLiveInSeconds
    evictionCheckInterval,  \* MemCache.evictionCheckInterval
    store,                  \* MemCache.store: a function whose domain is the keys present
    mutex,                  \* MemCache.mutex: [writer, readers]
    now,                    \* the clock read by time.Now()
    pc,                     \* where each goroutine is
    call,                   \* the call each goroutine is in, with its arguments
    evictedItems,           \* Evict's local slice
    rest,                   \* the keys Evict's range loop has not visited yet
    invokedAt,              \* the clock when the running Evict was invoked
    ret,                    \* the most recent return of a caller's call (for Evict, with the time it was invoked at)
    ctxDone,                \* whether the context's Done channel is closed
    ticker,                 \* the time.Ticker of StartEvictionChecks: [active, next (duration units since 0)]
    tickC,                  \* number of ticks buffered in trigger.C (capacity 1)
    calls,                  \* number of calls the application has issued so far
    added                   \* history: per key, the entry stored by the last successful Add since the last Delete

vars == <<timeRecordEvict, timeToLiveInSeconds, evictionCheckInterval, store, mutex,
          now, pc, call, evictedItems, rest, invokedAt, ret, ctxDone, ticker, tickC,
          calls, added>>

config == <<timeRecordEvict, timeToLiveInSeconds, evictionCheckInterval>>
locals == <<evictedItems, rest, invokedAt>>
sweep == <<ctxDone, ticker, tickC>>
history == <<added>>

\* ------------------------------------------------------------- data
NoEntry == [value |-> "nil", expirationTime |-> -1000]
cacheValue(v, e) == [value |-> v, expirationTime |-> e]
EmptyStore == [k \in {} |-> NoEntry]

NoCall == [op |-> "none", key |-> "-", value |-> "-", ttl |-> 0, ctx |-> "-"]
NoRet == [op |-> "none", key |-> "-", value |-> "nil", found |-> FALSE, err |-> "nil",
          at |-> 0]

\* int64(d.Seconds()): the float64 number of seconds, truncated toward zero
Int64Seconds(d) == IF d >= 0 THEN d \div Second ELSE -((-d) \div Second)

\* currentTime.Add(d) on the clock of whole seconds, for a duration d of whole seconds
TimeAdd(t, d) == t + d \div Second

\* currentTime.Add(time.Duration(ttl) * time.Second)
ExpireTime(currentTime, ttl) == TimeAdd(currentTime, ttl * Second)

\* a delete that removes the key only when its entry has expired
MapDelete_IfExpired(s, key) ==
    [k \in {j \in DOMAIN s : j # key \/ ~(now > s[j].expirationTime)} |-> s[k]]

\* delete(c.store, key)
MapDelete(s, key) == [k \in (DOMAIN s) \ {key} |-> s[k]]

\* a write that replaces the map by one holding only the new entry
MapPut_Fresh(s, key, e) == [k \in {key} |-> e]

\* c.store[key] = e
MapPut(s, key, e) == [k \in (DOMAIN s) \cup {key} |-> IF k = key THEN e ELSE s[k]]

\* a duplicate test that never fires, so that Add overwrites
KeyExists_Never(s, key) == FALSE

\* a duplicate test that lets an expired entry be overwritten
KeyExists_Unexpired(s, key) == key \in DOMAIN s /\ ~(now > s[key].expirationTime)

\* the duplicate test of AddWithExpireTime: `_, ok := c.store[key]`
KeyExists(s, key) == key \in DOMAIN s

\* a nil test that never fires
ContextIsNil_Never(c) == FALSE

\* StartEvictionChecks' test `context == nil`
ContextIsNil(c) == c = "nil"

\* a freshness test that holds only in the first second after the expiration
GetExpired_FirstSecond(t, e) == t = e.expirationTime + 1

\* a freshness test that counts the instant of expiration as expired
GetExpired_AtOrAfter(t, e) == t >= e.expirationTime

\* Get's freshness test: time.Now().After(val.expirationTime)
GetExpired(t, e) == t > e.expirationTime

\* an eviction test that counts the instant of expiration as expired
EvictExpired_AtOrAfter(t, e) == t >= e.expirationTime

\* Evict's test: time.Now().After(val.expirationTime)
EvictExpired(t, e) == t > e.expirationTime

\* a second loop that stops after its first delete
DeleteAll_First(s, items) ==
    IF items = {} THEN s
    ELSE LET first == CHOOSE k \in items : TRUE IN [k \in (DOMAIN s) \ {first} |-> s[k]]

\* Evict's second loop: delete every collected key
DeleteAll(s, items) == [k \in (DOMAIN s) \ items |-> s[k]]

\* sync.RWMutex
Unlocked == [writer |-> NoProc, readers |-> {}]
\* a Lock that does not wait for the readers to leave
CanLock_IgnoresReaders == mutex.writer = NoProc

CanLock == mutex.writer = NoProc /\ mutex.readers = {}
CanRLock == mutex.writer = NoProc

\* ------------------------------------------------------------- New
Init ==
    /\ timeRecordEvict \in RecordEvictTimes
    /\ evictionCheckInterval \in CheckIntervals
    /\ timeToLiveInSeconds = Int64Seconds(timeRecordEvict)
    /\ store = EmptyStore
    /\ mutex = Unlocked
    /\ now = 0
    /\ pc = [p \in Procs |-> IF p = Sweeper THEN "none" ELSE "idle"]
    /\ call = [p \in Procs |-> NoCall]
    /\ evictedItems = [p \in Procs |-> {}]
    /\ rest = [p \in Procs |-> {}]
    /\ invokedAt = [p \in Procs |-> 0]
    /\ ret = NoRet
    /\ ctxDone = FALSE
    /\ ticker = [active |-> FALSE, next |-> 0]
    /\ tickC = 0
    /\ calls = 0
    /\ added = [k \in Keys |-> NoEntry]

\* ------------------------------------------------------------- the clock
\* A tick that is due is delivered before the clock shows the next second.
Tick ==
    /\ now < MaxTime
    /\ ~(ticker.active /\ now * Second >= ticker.next)
    /\ now' = now + 1
    /\ UNCHANGED <<config, store, mutex, pc, call, locals, ret, sweep, calls, history>>

\* ------------------------------------------------------------- invocations
Begin(p, c, where) ==
    /\ pc[p] = "idle"
    /\ calls < MaxCalls
    /\ calls' = calls + 1
    /\ pc' = [pc EXCEPT ![p] = where]
    /\ call' = [call EXCEPT ![p] = c]
    /\ UNCHANGED ret

\* Add(key, value): AddWithExpireTime(key, value, c.timeToLiveInSeconds)
AddOf(p, k, v) ==
    /\ Begin(p, [NoCall EXCEPT !.op = "Add", !.key = k, !.value = v,
                               !.ttl = timeToLiveInSeconds], "add_lock")
    /\ UNCHANGED <<config, store, mutex, now, locals, sweep, history>>

Add(p) == \E k \in Keys, v \in Values : AddOf(p, k, v)

AddWithExpireTime(p) ==
    /\ \E k \in Keys, v \in Values, t \in TTLs :
          Begin(p, [NoCall EXCEPT !.op = "Add", !.key = k, !.value = v, !.ttl = t],
                "add_lock")
    /\ UNCHANGED <<config, store, mutex, now, locals, sweep, history>>

Get(p) ==
    /\ \E k \in Keys : Begin(p, [NoCall EXCEPT !.op = "Get", !.key = k], "get_rlock")
    /\ UNCHANGED <<config, store, mutex, now, locals, sweep, history>>

Delete(p) ==
    /\ \E k \in Keys : Begin(p, [NoCall EXCEPT !.op = "Delete", !.key = k], "del_lock")
    /\ UNCHANGED <<config, store, mutex, now, locals, sweep, history>>

Evict(p) ==
    /\ Begin(p, [NoCall EXCEPT !.op = "Evict"], "ev_lock")
    /\ invokedAt' = [invokedAt EXCEPT ![p] = now]
    /\ UNCHANGED <<config, store, mutex, now, evictedItems, rest, sweep, history>>

\* one background task at a time: a non-nil context is passed only while none was started
StartEvictionChecks(p) ==
    /\ \E c \in Contexts :
          /\ c # "nil" => /\ pc[Sweeper] = "none"
                         /\ \A q \in Callers : call[q].ctx = "-"
          /\ Begin(p, [NoCall EXCEPT !.op = "StartEvictionChecks", !.ctx = c], "sec_check")
    /\ UNCHANGED <<config, store, mutex, now, locals, sweep, history>>

\* ------------------------------------------------------------- AddWithExpireTime
Returned(p, op, key, value, found, err) ==
    /\ ret' = [NoRet EXCEPT !.op = op, !.key = key, !.value = value, !.found = found,
                          !.err = err]
    /\ pc' = [pc EXCEPT ![p] = "idle"]
    /\ call' = [call EXCEPT ![p] = NoCall]

AddLock(p) ==
    /\ pc[p] = "add_lock"
    /\ CanLock
    /\ mutex' = [mutex EXCEPT !.writer = p]
    /\ pc' = [pc EXCEPT ![p] = "add_body"]
    /\ UNCHANGED <<config, store, now, call, locals, ret, sweep, calls, history>>

\* an AddWithExpireTime whose duplicate return leaves the lock held
AddBody_LeakOnDuplicate(p) ==
    /\ pc[p] = "add_body"
    /\ IF KeyExists(store, call[p].key)
          THEN /\ Returned(p, "Add", call[p].key, "nil", FALSE, "DuplicateKey")
               /\ UNCHANGED <<store, history, mutex>>
          ELSE /\ LET e == cacheValue(call[p].value, ExpireTime(now, call[p].ttl))
                  IN  /\ store' = MapPut(store, call[p].key, e)
                      /\ added' = [added EXCEPT ![call[p].key] = e]
               /\ Returned(p, "Add", call[p].key, "nil", FALSE, "nil")
               /\ mutex' = [mutex EXCEPT !.writer = NoProc]
    /\ UNCHANGED <<config, now, locals, sweep, calls>>

AddBody(p) ==
    /\ pc[p] = "add_body"
    /\ IF KeyExists(store, call[p].key)
          THEN /\ Returned(p, "Add", call[p].key, "nil", FALSE, "DuplicateKey")
               /\ UNCHANGED <<store, history>>
          ELSE /\ LET e == cacheValue(call[p].value, ExpireTime(now, call[p].ttl))
                  IN  /\ store' = MapPut(store, call[p].key, e)
                      /\ added' = [added EXCEPT ![call[p].key] = e]
               /\ Returned(p, "Add", call[p].key, "nil", FALSE, "nil")
    /\ mutex' = [mutex EXCEPT !.writer = NoProc]
    /\ UNCHANGED <<config, now, locals, sweep, calls>>

\* ------------------------------------------------------------- Get
GetRLock(p) ==
    /\ pc[p] = "get_rlock"
    /\ CanRLock
    /\ mutex' = [mutex EXCEPT !.readers = @ \cup {p}]
    /\ pc' = [pc EXCEPT ![p] = "get_body"]
    /\ UNCHANGED <<config, store, now, call, locals, ret, sweep, calls, history>>

\* a Get that removes the entry it finds expired
GetBody_LazyDelete(p) ==
    /\ pc[p] = "get_body"
    /\ IF call[p].key \in DOMAIN store /\ ~GetExpired(now, store[call[p].key])
          THEN /\ Returned(p, "Get", call[p].key, store[call[p].key].value, TRUE, "nil")
               /\ UNCHANGED store
          ELSE /\ Returned(p, "Get", call[p].key, "nil", FALSE, "nil")
               /\ store' = [k \in (DOMAIN store) \ {call[p].key} |-> store[k]]
    /\ mutex' = [mutex EXCEPT !.readers = @ \ {p}]
    /\ UNCHANGED <<config, now, locals, sweep, calls, history>>

GetBody(p) ==
    /\ pc[p] = "get_body"
    /\ IF call[p].key \in DOMAIN store /\ ~GetExpired(now, store[call[p].key])
          THEN Returned(p, "Get", call[p].key, store[call[p].key].value, TRUE, "nil")
          ELSE Returned(p, "Get", call[p].key, "nil", FALSE, "nil")
    /\ mutex' = [mutex EXCEPT !.readers = @ \ {p}]
    /\ UNCHANGED <<config, store, now, locals, sweep, calls, history>>

\* ------------------------------------------------------------- Delete
DeleteLock(p) ==
    /\ pc[p] = "del_lock"
    /\ CanLock
    /\ mutex' = [mutex EXCEPT !.writer = p]
    /\ pc' = [pc EXCEPT ![p] = "del_body"]
    /\ UNCHANGED <<config, store, now, call, locals, ret, sweep, calls, history>>

DeleteBody(p) ==
    /\ pc[p] = "del_body"
    /\ store' = MapDelete(store, call[p].key)
    /\ added' = [added EXCEPT ![call[p].key] = NoEntry]
    /\ Returned(p, "Delete", call[p].key, "nil", FALSE, "nil")
    /\ mutex' = [mutex EXCEPT !.writer = NoProc]
    /\ UNCHANGED <<config, now, locals, sweep, calls>>

\* ------------------------------------------------------------- Evict
\* an Evict that scans without taking the lock
EvictLock_NoLock(p) ==
    /\ pc[p] = "ev_lock"
    /\ evictedItems' = [evictedItems EXCEPT ![p] = {}]
    /\ rest' = [rest EXCEPT ![p] = DOMAIN store]
    /\ pc' = [pc EXCEPT ![p] = "ev_scan"]
    /\ UNCHANGED <<config, store, mutex, now, call, invokedAt, ret, sweep, calls, history>>

EvictLock(p) ==
    /\ pc[p] = "ev_lock"
    /\ CanLock
    /\ mutex' = [mutex EXCEPT !.writer = p]
    /\ evictedItems' = [evictedItems EXCEPT ![p] = {}]
    /\ rest' = [rest EXCEPT ![p] = DOMAIN store]
    /\ pc' = [pc EXCEPT ![p] = "ev_scan"]
    /\ UNCHANGED <<config, store, now, call, invokedAt, ret, sweep, calls, history>>

\* one iteration of `for key, val := range c.store`, in the map's arbitrary order
EvictScan(p) ==
    /\ pc[p] = "ev_scan"
    /\ \E k \in rest[p] :
          /\ rest' = [rest EXCEPT ![p] = @ \ {k}]
          /\ evictedItems' = [evictedItems EXCEPT ![p] =
                                 IF EvictExpired(now, store[k]) THEN @ \cup {k} ELSE @]
    /\ UNCHANGED <<config, store, mutex, now, pc, call, invokedAt, ret, sweep, calls, history>>

\* the second loop, the deferred Unlock and the return
EvictFinish(p) ==
    /\ pc[p] = "ev_scan"
    /\ rest[p] = {}
    /\ store' = DeleteAll(store, evictedItems[p])
    /\ mutex' = [mutex EXCEPT !.writer = NoProc]
    /\ evictedItems' = [evictedItems EXCEPT ![p] = {}]
    /\ invokedAt' = [invokedAt EXCEPT ![p] = 0]
    /\ call' = [call EXCEPT ![p] = NoCall]
    /\ IF p = Sweeper
          THEN /\ pc' = [pc EXCEPT ![p] = "select"]
               /\ UNCHANGED ret
          ELSE /\ pc' = [pc EXCEPT ![p] = "idle"]
               /\ ret' = [NoRet EXCEPT !.op = "Evict", !.at = invokedAt[p]]
    /\ UNCHANGED <<config, now, rest, sweep, calls, added>>

\* ------------------------------------------------------------- StartEvictionChecks
\* the nil test, time.NewTicker, `defer trigger.Stop()` and the go statement
StartCheck(p) ==
    /\ pc[p] = "sec_check"
    /\ IF ContextIsNil(call[p].ctx)
          THEN /\ Returned(p, "StartEvictionChecks", "-", "nil", FALSE, "ErrContextIsNil")
               /\ UNCHANGED ticker
          ELSE /\ ticker' = [active |-> TRUE, next |-> now * Second + evictionCheckInterval]
               /\ pc' = [pc EXCEPT ![p] = "sec_ret", ![Sweeper] = "select"]
               /\ UNCHANGED <<call, ret>>
    /\ UNCHANGED <<config, store, mutex, now, locals, ctxDone, tickC, calls, history>>

\* `return nil`, which runs the deferred trigger.Stop()
StartReturn(p) ==
    /\ pc[p] = "sec_ret"
    /\ ticker' = [active |-> FALSE, next |-> 0]
    /\ Returned(p, "StartEvictionChecks", "-", "nil", FALSE, "nil")
    /\ UNCHANGED <<config, store, mutex, now, locals, ctxDone, tickC, calls, history>>

\* the runtime delivers a tick: trigger.C holds one tick, further ones are dropped
TickerFire ==
    /\ ticker.active
    /\ now * Second >= ticker.next
    /\ ticker' = [ticker EXCEPT !.next = @ + evictionCheckInterval]
    /\ tickC' = 1
    /\ UNCHANGED <<config, store, mutex, now, pc, call, locals, ret, ctxDone, calls, history>>

\* the application's cancel() of the context it passed
Cancel ==
    /\ ~ctxDone
    /\ pc[Sweeper] # "none"
    /\ calls < MaxCalls
    /\ calls' = calls + 1
    /\ ctxDone' = TRUE
    /\ UNCHANGED <<config, store, mutex, now, pc, call, locals, ret, ticker, tickC, history>>

\* case <-trigger.C: c.Evict()
SweepTick ==
    /\ pc[Sweeper] = "select"
    /\ tickC = 1
    /\ tickC' = 0
    /\ pc' = [pc EXCEPT ![Sweeper] = "ev_lock"]
    /\ call' = [call EXCEPT ![Sweeper] = [NoCall EXCEPT !.op = "Evict"]]
    /\ invokedAt' = [invokedAt EXCEPT ![Sweeper] = now]
    /\ UNCHANGED <<config, store, mutex, now, evictedItems, rest, ret, ctxDone, ticker, calls, history>>

\* a Done case that leaves the select only and goes round the loop again
SweepDone_KeepsWaiting ==
    /\ pc[Sweeper] = "select"
    /\ ctxDone
    /\ UNCHANGED vars

\* case <-context.Done(): return
SweepDone ==
    /\ pc[Sweeper] = "select"
    /\ ctxDone
    /\ pc' = [pc EXCEPT ![Sweeper] = "exited"]
    /\ UNCHANGED <<config, store, mutex, now, call, locals, ret, sweep, calls, history>>

\* ------------------------------------------------------------- the system
Next ==
    \/ Tick
    \/ TickerFire
    \/ Cancel
    \/ SweepTick
    \/ SweepDone
    \/ \E p \in Callers : Add(p)
    \/ \E p \in Callers : AddWithExpireTime(p)
    \/ \E p \in Callers : Get(p)
    \/ \E p \in Callers : Delete(p)
    \/ \E p \in Callers : Evict(p)
    \/ \E p \in Callers : StartEvictionChecks(p)
    \/ \E p \in Callers : AddLock(p)
    \/ \E p \in Callers : AddBody(p)
    \/ \E p \in Callers : GetRLock(p)
    \/ \E p \in Callers : GetBody(p)
    \/ \E p \in Callers : DeleteLock(p)
    \/ \E p \in Callers : DeleteBody(p)
    \/ \E p \in Procs : EvictLock(p)
    \/ \E p \in Procs : EvictScan(p)
    \/ \E p \in Procs : EvictFinish(p)
    \/ \E p \in Callers : StartCheck(p)
    \/ \E p \in Callers : StartReturn(p)

Spec == Init /\ [][Next]_vars

\* The goroutines keep running: the clock advances, a due tick is delivered, the
\* background task and every caller that is inside a call take their next step.
\* Nothing obliges the application to issue a call.
SweeperStep ==
    SweepTick \/ SweepDone \/ EvictLock(Sweeper) \/ EvictScan(Sweeper) \/ EvictFinish(Sweeper)

CallerStep(p) ==
    \/ AddLock(p) \/ AddBody(p)
    \/ GetRLock(p) \/ GetBody(p)
    \/ DeleteLock(p) \/ DeleteBody(p)
    \/ EvictLock(p) \/ EvictScan(p) \/ EvictFinish(p)
    \/ StartCheck(p) \/ StartReturn(p)

FairSpec ==
    /\ Spec
    /\ WF_vars(Tick)
    /\ WF_vars(TickerFire)
    /\ WF_vars(SweeperStep)
    /\ \A p \in Callers : WF_vars(CallerStep(p))

\* ------------------------------------------------------------- Evict on any store
\* The stores the cache can hold at clock t: any keys, any values, expirations that an
\* Add at or before t can have set.
MaxTTL == CHOOSE t \in TTLs : \A u \in TTLs : u <= t
EntriesAt(t) == {cacheValue(v, e) : v \in Values, e \in 0 .. (t + MaxTTL)}
StoresAt(t) == UNION {[K -> EntriesAt(t)] : K \in SUBSET Keys}

InitEvict ==
    /\ timeRecordEvict \in RecordEvictTimes
    /\ evictionCheckInterval \in CheckIntervals
    /\ timeToLiveInSeconds = Int64Seconds(timeRecordEvict)
    /\ now \in 0 .. MaxTime
    /\ store \in StoresAt(now)
    /\ mutex = Unlocked
    /\ pc = [p \in Procs |-> IF p = Sweeper THEN "none" ELSE "idle"]
    /\ call = [p \in Procs |-> NoCall]
    /\ evictedItems = [p \in Procs |-> {}]
    /\ rest = [p \in Procs |-> {}]
    /\ invokedAt = [p \in Procs |-> 0]
    /\ ret = NoRet
    /\ ctxDone = FALSE
    /\ ticker = [active |-> FALSE, next |-> 0]
    /\ tickC = 0
    /\ calls = 0
    /\ added = [k \in Keys |-> IF k \in DOMAIN store THEN store[k] ELSE NoEntry]

NextEvict ==
    \/ Tick
    \/ \E p \in Callers : Evict(p)
    \/ \E p \in Callers : EvictLock(p)
    \/ \E p \in Callers : EvictScan(p)
    \/ \E p \in Callers : EvictFinish(p)

EvictSpec == InitEvict /\ [][NextEvict]_vars

\* ------------------------------------------------------------- concurrent writers
\* Every caller adds one key of its own; once all have written, callers read.  The
\* background task was started before: its ticker is stopped, and a tick may be waiting.
WriterKey(p) == IF p = "c1" THEN "a" ELSE "b"
AllWritten == \A p \in Callers : added[WriterKey(p)] # NoEntry /\ pc[p] # "add_lock" /\ pc[p] # "add_body"

InitWriters ==
    /\ timeRecordEvict \in RecordEvictTimes
    /\ evictionCheckInterval \in CheckIntervals
    /\ timeToLiveInSeconds = Int64Seconds(timeRecordEvict)
    /\ now = 0
    /\ store = EmptyStore
    /\ mutex = Unlocked
    /\ \E started \in BOOLEAN :
          /\ pc = [p \in Procs |-> IF p = Sweeper THEN (IF started THEN "select" ELSE "none")
                                                 ELSE "idle"]
          /\ tickC \in (IF started THEN {0, 1} ELSE {0})
          /\ ret = IF started THEN [NoRet EXCEPT !.op = "StartEvictionChecks"] ELSE NoRet
          /\ calls = 0
    /\ call = [p \in Procs |-> NoCall]
    /\ evictedItems = [p \in Procs |-> {}]
    /\ rest = [p \in Procs |-> {}]
    /\ invokedAt = [p \in Procs |-> 0]
    /\ ctxDone = FALSE
    /\ ticker = [active |-> FALSE, next |-> 0]
    /\ added = [k \in Keys |-> NoEntry]

WriterAdd(p) ==
    /\ added[WriterKey(p)] = NoEntry
    /\ \E v \in Values : AddOf(p, WriterKey(p), v)

ReaderGet(p) ==
    /\ AllWritten
    /\ Get(p)

NextWriters ==
    \/ Tick
    \/ SweepTick
    \/ \E p \in Callers : WriterAdd(p)
    \/ \E p \in Callers : ReaderGet(p)
    \/ \E p \in Callers : AddLock(p)
    \/ \E p \in Callers : AddBody(p)
    \/ \E p \in Callers : GetRLock(p)
    \/ \E p \in Callers : GetBody(p)
    \/ EvictLock(Sweeper)
    \/ EvictScan(Sweeper)
    \/ EvictFinish(Sweeper)

WritersSpec == InitWriters /\ [][NextWriters]_vars


\* ------------------------------------------------------------- concurrent readers
\* The store was filled before; the callers only read.  The background task was started
\* before: its ticker is stopped, and a tick may be waiting.
InitReaders ==
    /\ timeRecordEvict \in RecordEvictTimes
    /\ evictionCheckInterval \in CheckIntervals
    /\ timeToLiveInSeconds = Int64Seconds(timeRecordEvict)
    /\ now = 0
    /\ store \in StoresAt(0)
    /\ mutex = Unlocked
    /\ \E started \in BOOLEAN :
          /\ pc = [p \in Procs |-> IF p = Sweeper THEN (IF started THEN "select" ELSE "none")
                                                 ELSE "idle"]
          /\ tickC \in (IF started THEN {0, 1} ELSE {0})
          /\ ret = IF started THEN [NoRet EXCEPT !.op = "StartEvictionChecks"] ELSE NoRet
          /\ calls = 0
    /\ call = [p \in Procs |-> NoCall]
    /\ evictedItems = [p \in Procs |-> {}]
    /\ rest = [p \in Procs |-> {}]
    /\ invokedAt = [p \in Procs |-> 0]
    /\ ctxDone = FALSE
    /\ ticker = [active |-> FALSE, next |-> 0]
    /\ added = [k \in Keys |-> IF k \in DOMAIN store THEN store[k] ELSE NoEntry]

NextReaders ==
    \/ Tick
    \/ SweepTick
    \/ \E p \in Callers : Get(p)
    \/ \E p \in Callers : GetRLock(p)
    \/ \E p \in Callers : GetBody(p)
    \/ EvictLock(Sweeper)
    \/ EvictScan(Sweeper)
    \/ EvictFinish(Sweeper)

ReadersSpec == InitReaders /\ [][NextReaders]_vars

\* ------------------------------------------------------------- the default time-to-live
\* New with every default time-to-live up to MaxDefaultTTL duration units, whole seconds
\* or not; the callers use Add, which applies the default, and Get.
MaxDefaultTTL == 5
DefaultTTLs == 0 .. MaxDefaultTTL

InitDefault ==
    /\ timeRecordEvict \in DefaultTTLs
    /\ evictionCheckInterval \in CheckIntervals
    /\ timeToLiveInSeconds = Int64Seconds(timeRecordEvict)
    /\ store = EmptyStore
    /\ mutex = Unlocked
    /\ now = 0
    /\ pc = [p \in Procs |-> IF p = Sweeper THEN "none" ELSE "idle"]
    /\ call = [p \in Procs |-> NoCall]
    /\ evictedItems = [p \in Procs |-> {}]
    /\ rest = [p \in Procs |-> {}]
    /\ invokedAt = [p \in Procs |-> 0]
    /\ ret = NoRet
    /\ ctxDone = FALSE
    /\ ticker = [active |-> FALSE, next |-> 0]
    /\ tickC = 0
    /\ calls = 0
    /\ added = [k \in Keys |-> NoEntry]

NextDefault ==
    \/ Tick
    \/ \E p \in Callers : Add(p)
    \/ \E p \in Callers : Get(p)
    \/ \E p \in Callers : AddLock(p)
    \/ \E p \in Callers : AddBody(p)
    \/ \E p \in Callers : GetRLock(p)
    \/ \E p \in Callers : GetBody(p)

DefaultSpec == InitDefault /\ [][NextDefault]_vars

\* ------------------------------------------------------------- steps, as seen from outside
AddReturns(p) == pc[p] = "add_body" /\ pc'[p] = "idle"
GetReturns(p) == pc[p] = "get_body" /\ pc'[p] = "idle"
GetSteps(p) ==
    \/ pc[p] = "idle" /\ pc'[p] = "get_rlock"
    \/ pc[p] = "get_rlock" /\ pc'[p] = "get_body"
    \/ GetReturns(p)
DeleteReturns(p) == pc[p] = "del_body" /\ pc'[p] = "idle"
EvictReturns(p) == pc[p] = "ev_scan" /\ pc'[p] \in {"idle", "select"}
NilStartReturns(p) == pc[p] = "sec_check" /\ call[p].ctx = "nil" /\ pc'[p] # "sec_check"

Found(k, v) == [NoRet EXCEPT !.op = "Get", !.key = k, !.value = v, !.found = TRUE]
NotFound(k) == [NoRet EXCEPT !.op = "Get", !.key = k]
Duplicate(k) == [NoRet EXCEPT !.op = "Add", !.key = k, !.err = "DuplicateKey"]

\* an Add that stores (key, value) with a ttl at clock t0 gives the entry expiration t0 + ttl
AddStoresExpiry(p) ==
    (AddReturns(p) /\ ret'.err = "nil") =>
        /\ call[p].key \in DOMAIN store'
        /\ store'[call[p].key] = cacheValue(call[p].value, now + call[p].ttl)
        /\ added'[call[p].key] = store'[call[p].key]

\* ------------------------------------------------------------- C1
\* C1 as written: Get of an entry added at t0 with TTL T returns (value, found) at
\* every query time strictly before t0+T and (nil, not found) at every query time at
\* or after t0+T, whether or not Evict has run; Get of a key that is not in the store
\* returns (nil, not found).
C1_ExpiresAtOrAfter ==
    [][\A p \in Callers :
          /\ AddStoresExpiry(p)
          /\ GetReturns(p) =>
                LET k == call[p].key
                    e == added[k]
                IN  /\ (e # NoEntry /\ now < e.expirationTime) => ret' = Found(k, e.value)
                    /\ (e # NoEntry /\ now >= e.expirationTime) => ret' = NotFound(k)
                    /\ k \notin DOMAIN store => ret' = NotFound(k)]_vars

\* C1 amended: the entry is found at every query time up to and including t0+T and
\* is not found at every query time strictly after t0+T, whether or not Evict has
\* run; Get of a key that is not in the store returns (nil, not found).
C1_ExpiresStrictlyAfter ==
    [][\A p \in Callers :
          /\ AddStoresExpiry(p)
          /\ GetReturns(p) =>
                LET k == call[p].key
                    e == added[k]
                IN  /\ (e # NoEntry /\ now <= e.expirationTime) => ret' = Found(k, e.value)
                    /\ (e # NoEntry /\ now > e.expirationTime) => ret' = NotFound(k)
                    /\ k \notin DOMAIN store => ret' = NotFound(k)]_vars

\* a Get has returned found at the very instant its entry expires (the clock has not moved
\* since the entry was added with ttl 0 at time 0)
C1_Witness ==
    /\ ret.op = "Get" /\ ret.found
    /\ now = 0
    /\ ret.key \in DOMAIN store
    /\ store[ret.key].expirationTime = 0
    /\ store[ret.key].value = ret.value

\* ------------------------------------------------------------- C2
\* C2 as written: after Add(k, v) succeeds, every later Add(k, v2) before any Delete(k)
\* fails with DuplicateKey, and Get(k) still returns v.
C2_UniqueUntilDelete ==
    [][\A p \in Callers :
          LET k == call[p].key
          IN  /\ (AddReturns(p) /\ added[k] # NoEntry) => ret' = Duplicate(k)
              /\ (GetReturns(p) /\ added[k] # NoEntry) => ret' = Found(k, added[k].value)]_vars

\* C2 amended: after Add(k, v) succeeds, every later Add(k, v2) before any Delete(k)
\* and before an Evict has removed the entry fails with DuplicateKey and leaves the
\* entry as it was, and Get(k) returns v for as long as the entry has not expired.
C2_UniqueWhileStored ==
    [][\A p \in Callers :
          LET k == call[p].key
          IN  /\ (AddReturns(p) /\ added[k] # NoEntry /\ k \in DOMAIN store) =>
                    /\ ret' = Duplicate(k)
                    /\ store' = store
                    /\ store[k] = added[k]
              /\ (GetReturns(p) /\ added[k] # NoEntry /\ now <= added[k].expirationTime) =>
                    ret' = Found(k, added[k].value)]_vars

\* a second Add of a stored key has just failed and the first entry is still there
C2_Witness ==
    /\ ret = Duplicate(ret.key)
    /\ ret.key \in DOMAIN store
    /\ store[ret.key] = added[ret.key]

\* ------------------------------------------------------------- C3
\* C3 as written: when Evict returns, no entry whose expiration is at or before the time
\* Evict was invoked remains in the store.
C3_EvictsAtOrBefore ==
    [][\A p \in Procs :
          EvictReturns(p) =>
             \A k \in DOMAIN store' : ~(store'[k].expirationTime <= invokedAt[p])]_vars

\* C3 amended: when Evict returns, no entry whose expiration is strictly before the time
\* Evict was invoked remains in the store (so Get of such a key finds nothing and an Add
\* of it succeeds); an entry that expires exactly at that time may remain.
C3_EvictsStrictlyBefore ==
    [][\A p \in Procs :
          EvictReturns(p) =>
             \A k \in DOMAIN store' : ~(store'[k].expirationTime < invokedAt[p])]_vars

\* an Evict has returned and removed an entry that had expired before it was invoked
C3_Witness ==
    /\ ret.op = "Evict"
    /\ \E k \in Keys : /\ added[k] # NoEntry
                       /\ added[k].expirationTime < ret.at
                       /\ k \notin DOMAIN store

\* ------------------------------------------------------------- C4
\* C4 as written: every entry whose expiration is later than the time Evict was invoked
\* is still in the store, unchanged, when Evict returns, even if the clock advances
\* while Evict runs.
C4_KeepsLaterThanInvocation ==
    [][\A p \in Procs :
          EvictReturns(p) =>
             \A k \in DOMAIN store :
                store[k].expirationTime > invokedAt[p] =>
                   k \in DOMAIN store' /\ store'[k] = store[k]]_vars

\* C4 amended: every entry whose expiration is not before the time at which Evict
\* returns is still in the store, with the same value and expiration, when it returns.
C4_KeepsUnexpiredAtReturn ==
    [][\A p \in Procs :
          EvictReturns(p) =>
             \A k \in DOMAIN store :
                store[k].expirationTime >= now =>
                   k \in DOMAIN store' /\ store'[k] = store[k]]_vars

\* an Evict has returned having removed one entry and kept another that expires exactly now
C4_Witness ==
    /\ ret.op = "Evict"
    /\ \E k \in DOMAIN store : store[k].expirationTime = now /\ store[k] = added[k]
    /\ \E k \in Keys : added[k] # NoEntry /\ k \notin DOMAIN store


\* ------------------------------------------------------------- C8
\* C8: Delete(k) never fails; when k is absent the store is left as it was, and when k
\* is present only k's entry is removed and every other entry keeps its value and
\* expiration.
C8_DeleteRemovesOnlyKey ==
    [][\A p \in Callers :
          DeleteReturns(p) =>
             LET k == call[p].key
             IN  /\ ret' = [NoRet EXCEPT !.op = "Delete", !.key = k]
                 /\ DOMAIN store' = (DOMAIN store) \ {k}
                 /\ \A j \in DOMAIN store' : store'[j] = store[j]
                 /\ k \notin DOMAIN store => store' = store]_vars

\* a Delete has returned, its key is gone and another entry is still stored
C8_Witness ==
    /\ ret.op = "Delete"
    /\ ret.key \notin DOMAIN store
    /\ \E j \in DOMAIN store : store[j] = added[j]

\* ------------------------------------------------------------- C9
\* C9: StartEvictionChecks with a nil context returns ErrContextIsNil, starts no
\* background task and leaves the store, the ticker and the lock as they were, so
\* that Add, Get, Delete and Evict behave afterwards as before.
C9_NilContextRejected ==
    [][\A p \in Callers :
          NilStartReturns(p) =>
             /\ ret' = [NoRet EXCEPT !.op = "StartEvictionChecks", !.err = "ErrContextIsNil"]
             /\ pc'[p] = "idle"
             /\ pc'[Sweeper] = pc[Sweeper]
             /\ UNCHANGED <<config, store, mutex, sweep, locals>>]_vars

\* a call with a nil context has returned the error: no task runs and the store holds an
\* entry
C9_Witness ==
    /\ ret.op = "StartEvictionChecks"
    /\ ret.err = "ErrContextIsNil"
    /\ pc[Sweeper] = "none"
    /\ ~ticker.active
    /\ DOMAIN store # {}

\* ------------------------------------------------------------- C10
\* C10: Get never changes the store, whether its key is absent, present and fresh, or
\* present and expired; an entry leaves the store only in a Delete or an Evict.
C10_GetLeavesStore ==
    [][/\ \A p \in Callers : GetSteps(p) => store' = store
       /\ (\E k \in DOMAIN store : k \notin DOMAIN store') =>
             \E p \in Procs : DeleteReturns(p) \/ EvictReturns(p)]_vars

\* a Get has returned not found for a key whose expired entry is still stored
C10_Witness ==
    /\ ret = NotFound(ret.key)
    /\ ret.key \in DOMAIN store
    /\ now > store[ret.key].expirationTime


\* ------------------------------------------------------------- C5
\* C5: once StartEvictionChecks was called with a context that is not cancelled, the
\* background task evicts on every tick of the sweep interval, so an entry whose
\* expiration has passed is eventually removed from the store (after which an Add of its
\* key succeeds).  The entries concerned are those that expire while a further tick of
\* the interval lies within the modelled time.
C5_Running == pc[Sweeper] # "none" /\ ~ctxDone
C5_TickAhead == now * Second + evictionCheckInterval <= MaxTime * Second
C5_SweepRemovesExpired ==
    \A k \in Keys :
       (C5_Running /\ C5_TickAhead /\ k \in DOMAIN store /\ now > store[k].expirationTime)
          ~> (k \notin DOMAIN store \/ ctxDone)

\* ------------------------------------------------------------- C6
\* C6 as written: when Evict is called twice with no Add between the two calls, the
\* second call removes no key.  (The last return before the second call's return is the
\* first call's: no call, hence no Add, has completed in between.)
C6_SecondEvictRemovesNothing ==
    [][\A p \in Callers :
          (EvictReturns(p) /\ ret.op = "Evict") => DOMAIN store' = DOMAIN store]_vars

\* C6 amended: when Evict is called twice with no Add between the two calls and the
\* clock has not advanced since the first call was invoked, the second call removes no
\* key: the store after it equals the store after the first.
C6_SecondEvictSameClock ==
    [][\A p \in Callers :
          (EvictReturns(p) /\ ret.op = "Evict" /\ ret.at = now) => store' = store]_vars

\* a first Evict has returned having evicted one entry and kept another; a second,
\* invoked on the same clock reading, has scanned the whole store and is about to return
C6_Witness ==
    /\ ret.op = "Evict" /\ ret.at = now
    /\ \E p \in Callers : pc[p] = "ev_scan" /\ rest[p] = {} /\ invokedAt[p] = now
    /\ DOMAIN store # {}
    /\ \E k \in Keys : added[k] # NoEntry /\ k \notin DOMAIN store

\* ------------------------------------------------------------- C7
\* C7: the Adds of the writers, each on its own absent key, all return no error under
\* every interleaving with each other and with the background task's Evict, each stores
\* its writer's value, and once all have completed every one of the keys is in the store
\* with that value, and is returned by Get, for as long as it has not expired.
C7_ConcurrentWriters ==
    [][/\ \A p \in Callers :
             AddReturns(p) =>
                /\ ret'.err = "nil"
                /\ WriterKey(p) \in DOMAIN store'
                /\ store'[WriterKey(p)] = cacheValue(call[p].value, now + timeToLiveInSeconds)
       /\ AllWritten' =>
             \A p \in Callers :
                LET k == WriterKey(p)
                IN  now' <= added'[k].expirationTime =>
                       k \in DOMAIN store' /\ store'[k] = added'[k]
       /\ \A p \in Callers :
             (GetReturns(p) /\ now <= added[call[p].key].expirationTime) =>
                ret' = Found(call[p].key, added[call[p].key].value)]_vars

\* all writers have completed while the background task was running, and a Get has
\* returned one of their values
C7_Witness ==
    /\ AllWritten
    /\ pc[Sweeper] \in {"ev_lock", "ev_scan"}
    /\ ret.op = "Get" /\ ret.found
    /\ ret.value = added[ret.key].value

\* ------------------------------------------------------------- C11
\* C11: whenever key k is in the store, expired or not, an Add or AddWithExpireTime of k
\* returns the DuplicateKey error carrying k and leaves the store as it was; an Add of k
\* succeeds only when k is not in the store, and a stored key leaves the store only in a
\* Delete of that key or in an Evict.
C11_StoredKeyBlocksAdd ==
    [][/\ \A p \in Callers :
             AddReturns(p) =>
                LET k == call[p].key
                IN  /\ k \in DOMAIN store => (ret' = Duplicate(k) /\ store' = store)
                    /\ ret'.err = "nil" => k \notin DOMAIN store
       /\ \A k \in DOMAIN store :
             k \notin DOMAIN store' =>
                \E p \in Procs : \/ DeleteReturns(p) /\ call[p].key = k
                                 \/ EvictReturns(p) /\ k \in evictedItems[p]]_vars

\* an Add of a key has just failed although the key's entry had expired: the entry expired
\* at clock 0, and the failed Add returned after the Add that stored the other entry, which
\* ran at clock 1 or later
C11_Witness ==
    /\ ret = Duplicate(ret.key)
    /\ ret.key \in DOMAIN store
    /\ store[ret.key].expirationTime = 0
    /\ \E j \in DOMAIN store : j # ret.key /\ store[j].expirationTime = MaxTime

\* ------------------------------------------------------------- C12
\* C12: the mutating calls take effect one at a time, each in the single step of the call
\* that holds the lock exclusively, so their effects are totally ordered; when a Delete(k)
\* or an Evict that collected k completes, k is not in the store, k comes back only by a
\* later Add of k, and a Get that returns found returns the entry that is in the store
\* at that moment, stored by an Add after the last Delete of its key: a Get(k) that
\* begins after the Delete or Evict has completed never returns the removed entry.
C12_Linearizable ==
    [][/\ store' # store =>
             \E p \in Procs :
                /\ mutex.writer = p
                /\ AddReturns(p) \/ DeleteReturns(p) \/ EvictReturns(p)
                /\ \A q \in Procs \ {p} : pc'[q] = pc[q]
       /\ \A p \in Callers : DeleteReturns(p) => call[p].key \notin DOMAIN store'
       /\ \A p \in Procs : EvictReturns(p) => evictedItems[p] \cap DOMAIN store' = {}
       /\ \A k \in (DOMAIN store') \ (DOMAIN store) :
             \E p \in Callers : AddReturns(p) /\ call[p].key = k
       /\ \A p \in Callers :
             (GetReturns(p) /\ ret'.found) =>
                LET k == call[p].key
                IN  /\ k \in DOMAIN store
                    /\ added[k] # NoEntry
                    /\ store[k] = added[k]
                    /\ ret' = Found(k, store[k].value)]_vars

\* a Get has returned not found for a key that was added, never deleted, and removed by
\* an Evict
C12_Witness ==
    /\ ret = NotFound(ret.key)
    /\ ret.key \notin DOMAIN store
    /\ added[ret.key] # NoEntry

\* ------------------------------------------------------------- C13
\* C13 as written: once the context passed to StartEvictionChecks is cancelled, the
\* background task starts no further Evict, eventually terminates, and once terminated
\* never sweeps again.
C13_NoEvictAfterCancel ==
    /\ [][ctxDone => ~(pc[Sweeper] = "select" /\ pc'[Sweeper] = "ev_lock")]_vars
    /\ [][pc[Sweeper] = "exited" => pc'[Sweeper] = "exited"]_vars
    /\ (ctxDone ~> pc[Sweeper] = "exited")

\* C13 amended: once the context is cancelled, the background task starts a further Evict
\* only for a tick that is already waiting in the ticker's channel when it reaches the
\* select (the select chooses among its ready cases); with no tick waiting it leaves the
\* select only by terminating; it eventually terminates, and once terminated it never
\* sweeps again.
C13_CancelStopsSweep ==
    /\ [][(ctxDone /\ pc[Sweeper] = "select" /\ tickC = 0) =>
             pc'[Sweeper] \in {"select", "exited"}]_vars
    /\ [][pc[Sweeper] = "exited" => pc'[Sweeper] = "exited"]_vars
    /\ (ctxDone ~> pc[Sweeper] = "exited")

\* the context was cancelled and the background task has terminated, leaving an expired
\* entry in the store
C13_Witness ==
    /\ ctxDone
    /\ pc[Sweeper] = "exited"
    /\ \E k \in DOMAIN store : now > store[k].expirationTime

\* ------------------------------------------------------------- C14
\* C14: for every default time-to-live D given to New, whole seconds or not, an entry
\* stored by Add(key, value) at clock t0 gets the expiration t0 + D.  (Both sides are
\* compared in duration units.)
C14_AddAppliesDefaultTTL ==
    [][\A p \in Callers :
          (AddReturns(p) /\ ret'.err = "nil") =>
             /\ call[p].key \in DOMAIN store'
             /\ store'[call[p].key].expirationTime * Second = now * Second + timeRecordEvict]_vars

\* ------------------------------------------------------------- C15
\* C15: in every reachable state, a caller or the background task that is inside the
\* critical section of an Add, AddWithExpireTime, Delete or Evict holds the lock in
\* exclusive mode and no other operation, reader or writer, is inside its own critical
\* section; Gets inside their critical sections hold the lock in shared mode, several at
\* a time, and never together with a writer.
InWriteSection(p) == pc[p] \in {"add_body", "del_body", "ev_scan"}
InReadSection(p) == pc[p] = "get_body"

C15_LockDiscipline ==
    /\ \A p \in Procs : InWriteSection(p) <=> mutex.writer = p
    /\ \A p \in Procs : InReadSection(p) <=> p \in mutex.readers
    /\ \A p \in Procs :
          InWriteSection(p) =>
             \A q \in Procs \ {p} : ~InWriteSection(q) /\ ~InReadSection(q)
    /\ mutex.writer # NoProc => mutex.readers = {}

\* two Gets are inside their critical sections at the same time while a writer waits for
\* the lock
C15_Witness ==
    /\ \A p \in Callers : InReadSection(p)
    /\ pc[Sweeper] = "ev_lock"
    /\ mutex.readers = Callers

\* ------------------------------------------------------------- C16
\* C16: from the moment Evict has the lock to its return it holds the lock exclusively,
\* the store does not change (no Add or Delete of another caller takes effect between
\* the scan and the deletions), and the keys it has collected or still has to visit are
\* keys of the store; the entries it deletes on return are exactly the collected ones,
\* each of them expired, so it never deletes an entry added after its scan began.
C16_EvictAtomicPass ==
    [][\A p \in Procs :
          pc[p] = "ev_scan" =>
             /\ mutex.writer = p
             /\ evictedItems[p] \cup rest[p] \subseteq DOMAIN store
             /\ IF EvictReturns(p)
                   THEN /\ DOMAIN store' = (DOMAIN store) \ evictedItems[p]
                        /\ \A k \in DOMAIN store' : store'[k] = store[k]
                        /\ \A k \in evictedItems[p] : now > store[k].expirationTime
                   ELSE /\ store' = store
                        /\ mutex'.writer = p
                        /\ \A q \in Procs \ {p} : ~AddReturns(q) /\ ~DeleteReturns(q)]_vars

\* an Evict has returned and removed an entry while an Add of the same key by another
\* caller was waiting for the lock
C16_Witness ==
    /\ ret.op = "Evict"
    /\ \E q \in Callers :
          /\ pc[q] = "add_lock"
          /\ call[q].key \notin DOMAIN store
          /\ added[call[q].key] # NoEntry

\* ------------------------------------------------------------- C17
\* C17: a key that is in the store before and after a step has the same value and the
\* same expiration after it, whatever the step (Add, AddWithExpireTime, Get, Delete,
\* Evict, a tick of the clock or of the ticker); an entry differs from the one last added
\* under its key only after the key was removed and added again.
C17_NoUpdateInPlace ==
    [][/\ \A k \in (DOMAIN store) \cap (DOMAIN store') : store'[k] = store[k]
       /\ \A k \in DOMAIN store : store[k] = added[k]
       /\ \A k \in Keys :
             added'[k] # added[k] =>
                \/ \E p \in Callers : DeleteReturns(p) /\ call[p].key = k
                \/ \E p \in Callers : AddReturns(p) /\ call[p].key = k /\ k \notin DOMAIN store]_vars

\* a key still has the entry it was added with, expiring at clock 0, after an Add of the
\* same key failed at clock 1 or later (it returned after the Add that stored the other
\* entry): an Add that overwrote would have given it a later expiration
C17_Witness ==
    /\ ret = Duplicate(ret.key)
    /\ ret.key \in DOMAIN store
    /\ store[ret.key] = added[ret.key]
    /\ added[ret.key].expirationTime = 0
    /\ \E j \in Keys \ {ret.key} :
          j \in DOMAIN store /\ store[j] = added[j] /\ added[j].expirationTime = MaxTime

\* ------------------------------------------------------------- C18
\* C18: Gets that run concurrently with each other and with the background task's Evict,
\* each on a key that was stored and has not expired when the Get reads it, each return
\* found with exactly the value stored under their key; a reader never waits for another
\* reader.
C18_ConcurrentReaders ==
    [][\A p \in Callers :
          /\ GetReturns(p) =>
                LET k == call[p].key
                IN  (added[k] # NoEntry /\ now <= added[k].expirationTime) =>
                       ret' = Found(k, added[k].value)
          /\ (pc[p] = "get_rlock" /\ \A q \in Procs : ~InWriteSection(q)) => ENABLED GetRLock(p)]_vars

\* a Get has returned found while the other caller is inside its own Get and the
\* background task waits for the lock
C18_Witness ==
    /\ ret.op = "Get" /\ ret.found
    /\ ret.value = added[ret.key].value
    /\ \E q \in Callers : InReadSection(q)
    /\ pc[Sweeper] = "ev_lock"

\* ------------------------------------------------------------- C19
\* C19: every Add, AddWithExpireTime, Get, Delete and Evict gives the lock back in the
\* step in which it returns, the DuplicateKey return included, so that in no reachable
\* state the lock is held by a goroutine that is outside its critical section; and, the
\* goroutines being scheduled fairly, every call in progress eventually returns and
\* every Evict of the background task eventually completes.
C19_LockReleased ==
    /\ [](/\ mutex.writer # NoProc => InWriteSection(mutex.writer)
          /\ \A p \in mutex.readers : InReadSection(p))
    /\ [][\A p \in Procs :
             /\ (AddReturns(p) \/ DeleteReturns(p) \/ EvictReturns(p)) =>
                   mutex.writer = p /\ mutex' = Unlocked
             /\ GetReturns(p) => p \in mutex.readers /\ p \notin mutex'.readers]_vars
    /\ \A p \in Callers : (pc[p] # "idle") ~> (pc[p] = "idle")
    /\ (pc[Sweeper] \in {"ev_lock", "ev_scan"}) ~> (pc[Sweeper] = "select")

\* an Add has returned the DuplicateKey error, the lock is free and no call is in progress
C19_Witness ==
    /\ ret = Duplicate(ret.key)
    /\ mutex = Unlocked
    /\ \A p \in Callers : pc[p] = "idle"
    /\ pc[Sweeper] \in {"none", "select", "exited"}

\* ------------------------------------------------------------- C20
\* C20: the clock never goes backwards, and an entry that has expired stays expired for
\* as long as it is in the store; a Get(k) that follows a Get(k) which returned not found
\* for the entry still stored under k returns not found again; a Get returns found only
\* for an entry that has not expired, so Get(k) returns found again only after the
\* expired entry was removed from the store and an Add of k stored a new one.
C20_ExpiryPermanent ==
    [][/\ now' >= now
       /\ \A k \in DOMAIN store :
             now > store[k].expirationTime =>
                \/ k \notin DOMAIN store'
                \/ store'[k] = store[k] /\ now' > store'[k].expirationTime
       /\ \A k \in (DOMAIN store') \ (DOMAIN store) :
             \E p \in Callers : AddReturns(p) /\ call[p].key = k
       /\ \A p \in Callers :
             GetReturns(p) =>
                LET k == call[p].key
                IN  /\ (ret = NotFound(k) /\ k \in DOMAIN store) => ret' = NotFound(k)
                    /\ ret'.found => k \in DOMAIN store /\ now <= store[k].expirationTime]_vars

\* a Get has returned not found for an expired entry that is still in the store, after
\* the application's earlier calls: the Add of the entry and another Get
C20_Witness ==
    /\ ret = NotFound(ret.key)
    /\ DOMAIN store = {ret.key}
    /\ now > store[ret.key].expirationTime
    /\ calls = 3
    /\ \A k \in Keys \ {ret.key} : added[k] = NoEntry
    /\ pc[Sweeper] = "none"
    /\ \A p \in Callers : pc[p] = "idle"

=============================================================================
